---- MODULE Spec2Model ----
(***************************************************************************)
(* The execution engine of the exospherehost TypeScript SDK: the Runtime   *)
(* class (AsyncQueue, poller `enqueue`, `worker` loops, outcome reports),  *)
(* the two signals and BaseNode._execute.  One step of the model is one    *)
(* run of a task between two `await`s: JavaScript runs everything between  *)
(* two suspension points of a task without interleaving.                   *)
(***************************************************************************)
EXTENDS Integers, Sequences, FiniteSets, TLC

\* ------------------------------------------------------------ bounds
\* Number of work items the orchestrator hands out over a whole run: when
\* the workers' handling of each item is followed call by call (Spec), and
\* when the workers are seen from the queue only (SpecPoller).
MaxItems == 3
MaxFetched == 6

\* Number of work items of a run whose every behaviour is followed to its
\* end under the event loop's scheduling (SpecFair).
MaxLive == 2

\* Longest array of outputs a handler returns when the handling of results
\* is studied by itself (SpecOutputs).
MaxOutputs == 3

\* Longest list of handler classes given to the constructor (SpecConstruct).
MaxNodes == 2

\* ---------------------------------------------------- configuration
\* options.batchSize and options.workers of the Runtimes under study.
BatchSizes == {1, 2}
NumWorkers == 2
Workers == 1..NumWorkers

\* The node classes given to the constructor: Echo declares no secret
\* field, Vault declares one.
RegisteredNames == {"Echo", "Vault"}
SecretKeys(name) == IF name = "Vault" THEN {"api_key"} ELSE {}

\* Node names the orchestrator may send in a state: the registered ones, an
\* unregistered one, and two unregistered ones that name members every plain
\* JavaScript object inherits from Object.prototype.
NodeNames == RegisteredNames \cup {"Ghost", "toString", "constructor"}

\* What a network call can come back with: a 2xx response, a non-2xx
\* response, or a rejected fetch (network failure).
Responses == {"ok", "notok", "reject"}

VARIABLES
  built,       \* the arguments `new Runtime(...)` was given and what it threw
  upsert,      \* a call of StateManager.upsertGraph: position, clock, status
  shared,      \* a node object used by several _execute calls at once
  orch,        \* the orchestrator: how many states it has, which node names
  batchSize,   \* Runtime.batchSize
  startPc,     \* position of startInternal
  items,       \* AsyncQueue.items of stateQueue
  resolvers,   \* AsyncQueue.resolvers of stateQueue (the waiting workers)
  nextId,      \* next state id the orchestrator hands out
  pollerPc,    \* position of the poller task (enqueue)
  sizeAtCheck, \* stateQueue.size() as the poller's check read it (0 once used)
  resp,        \* states of the fetch response being put
  putCount,    \* how many states of resp have been put
  putLog,      \* the states put since the poller's last check, in order
  iter,        \* what the poller's current iteration did about fetching
  wpc,         \* position of each worker task
  job,         \* what each worker does with the state it holds
  delivered    \* per state id: how many times a get() returned it

vars == <<built, upsert, shared, orch, batchSize, startPc, items, resolvers, nextId, pollerPc, sizeAtCheck,
          resp, putCount, putLog, iter, wpc, job, delivered>>

qvars == <<items, resolvers>>
pvars == <<pollerPc, sizeAtCheck, resp, putCount, putLog, iter, nextId>>
wvars == <<wpc, job, delivered>>

\* ------------------------------------------- StateManager.upsertGraph
\* Times are in seconds.  The caller chooses the validation timeout and the
\* polling interval; a network call and a late timer add a delay.
MaxTimeout == 3
ValidationTimeouts == 1..MaxTimeout
PollingIntervals == {1, 2}
Delays == {0, 1}

\* What graph['validation_status'] can be in a response body; "undefined"
\* is a body without the field.
GraphStatuses == {"PENDING", "VALID", "INVALID", "undefined"}

\* No call of upsertGraph is under way.
NoUpsert ==
  [pc |-> "idle", timeout |-> 0, interval |-> 0, elapsed |-> 0,
   status |-> "none", polls |-> 0, error |-> "none"]

\* A polling loop that never looks at the clock.
UpsertLoopNoTimeout(u) ==
  IF u.status = "PENDING" THEN [u EXCEPT !.pc = "sleeping"]
  ELSE IF u.status # "VALID" THEN [u EXCEPT !.pc = "threw", !.error = "validation"]
  ELSE [u EXCEPT !.pc = "returned"]

\* The `while (validationState === PENDING)` test and what runs from it up
\* to the next await or to the end of upsertGraph.
UpsertLoop(u) ==
  IF u.status = "PENDING"
  THEN IF u.elapsed > u.timeout
       THEN [u EXCEPT !.pc = "threw", !.error = "timeout"]
       ELSE [u EXCEPT !.pc = "sleeping"]
  ELSE IF u.status # "VALID" THEN [u EXCEPT !.pc = "threw", !.error = "validation"]
  ELSE [u EXCEPT !.pc = "returned"]

\* ------------------------------------------- one node object, many calls
\* No node object is being called from outside a Runtime.
NoShared == [handler |-> "none", inputs |-> "", secrets |-> "", args |-> <<>>, calls |-> <<>>]

\* ------------------------------------------------------ construction
\* What a static schema member of a handler class can be: not there at all
\* (the member is undefined), a Zod schema that is no ZodObject, or a
\* ZodObject with its fields in declaration order.
SchemaAbsent == [present |-> FALSE, value |-> "undefined", keys |-> <<>>]
SchemaZodString == [present |-> TRUE, value |-> "ZodString", keys |-> <<>>]
SchemaZodObject(keys) == [present |-> TRUE, value |-> "ZodObject", keys |-> keys]

StringField(k) == [key |-> k, type |-> "ZodString"]
NumberField(k) == [key |-> k, type |-> "ZodNumber"]

NodeClass(id, name, sub, inputs, outputs, secrets) ==
  [id |-> id, name |-> name, subtype |-> sub,
   Inputs |-> inputs, Outputs |-> outputs, Secrets |-> secrets]

\* The handler classes a Runtime may be given: the two registered nodes of
\* the Runtimes under study; a second class renamed to "Echo"; a node with
\* a number field in Inputs and in Secrets; a node whose Outputs is
\* z.string(); a class that declares the three schemas without extending
\* BaseNode; and a class that neither extends BaseNode nor declares one.
EchoClass ==
  NodeClass("Echo", "Echo", TRUE, SchemaZodObject(<<StringField("name")>>),
            SchemaZodObject(<<StringField("message")>>), SchemaZodObject(<<>>))
VaultClass ==
  NodeClass("Vault", "Vault", TRUE, SchemaZodObject(<<StringField("name")>>),
            SchemaZodObject(<<StringField("message")>>),
            SchemaZodObject(<<StringField("api_key")>>))
EchoTwinClass == [EchoClass EXCEPT !.id = "EchoTwin"]
CounterClass ==
  NodeClass("Counter", "Counter", TRUE,
            SchemaZodObject(<<StringField("name"), NumberField("count")>>),
            SchemaZodObject(<<StringField("message")>>),
            SchemaZodObject(<<NumberField("pin")>>))
TextClass ==
  NodeClass("Text", "Text", TRUE, SchemaZodObject(<<>>), SchemaZodString,
            SchemaZodObject(<<>>))
LooseClass ==
  NodeClass("Loose", "Loose", FALSE, SchemaZodObject(<<>>), SchemaZodObject(<<>>),
            SchemaZodObject(<<>>))
PlainClass ==
  NodeClass("Plain", "Plain", FALSE, SchemaAbsent, SchemaAbsent, SchemaAbsent)

NodeClasses ==
  {EchoClass, VaultClass, EchoTwinClass, CounterClass, TextClass, LooseClass, PlainClass}

\* A handler list is written as the list of its classes' identities.
NodeClassIds == {c.id : c \in NodeClasses}
ClassOf(id) == CHOOSE c \in NodeClasses : c.id = id
ClassesOf(ids) == [i \in 1..Len(ids) |-> ClassOf(ids[i])]

SchemaLabels == <<"Inputs", "Outputs", "Secrets">>

RECURSIVE Flatten(_)
\* The concatenation of a sequence of sequences.
Flatten(ss) == IF ss = <<>> THEN <<>> ELSE Head(ss) \o Flatten(Tail(ss))

\* errors.push(...) of checkStrings(schema, label): one entry per field that
\* is no ZodString, in the order of the schema's keys.
CheckStrings(node, label) ==
  LET keys == node[label].keys IN
  Flatten([k \in 1..Len(keys) |->
             IF keys[k].type = "ZodString" THEN <<>>
             ELSE <<[kind |-> "mustBeString", node |-> node.name, label |-> label,
                     key |-> keys[k].key]>>])

\* `schema.shape` of an undefined schema member throws a TypeError.
CheckStringsThrows(node) ==
  \E l \in 1..Len(SchemaLabels) : node[SchemaLabels[l]].value = "undefined"

\* The entries one pass of validateNodes' loop pushes for a handler class.
NodeErrors(node) ==
  (IF node.subtype THEN <<>>
   ELSE <<[kind |-> "notBaseNode", node |-> node.name, label |-> "", key |-> ""]>>)
  \o Flatten([l \in 1..Len(SchemaLabels) |->
                IF node[SchemaLabels[l]].present THEN <<>>
                ELSE <<[kind |-> "missing", node |-> node.name,
                        label |-> SchemaLabels[l], key |-> ""]>>])
  \o Flatten([l \in 1..Len(SchemaLabels) |->
                IF node[SchemaLabels[l]].value = "ZodObject" THEN <<>>
                ELSE <<[kind |-> "mustBeZodObject", node |-> node.name,
                        label |-> SchemaLabels[l], key |-> ""]>>])
  \o Flatten([l \in 1..Len(SchemaLabels) |-> CheckStrings(node, SchemaLabels[l])])

\* names.filter((n, i) => names.indexOf(n) !== i)
IndexOf(names, n) == CHOOSE i \in 1..Len(names) : names[i] = n /\ \A j \in 1..(i - 1) : names[j] # n

\* No check for repeated names.
DuplicatesUnchecked(names) == <<>>

Duplicates(names) ==
  Flatten([i \in 1..Len(names) |->
             IF IndexOf(names, names[i]) # i THEN <<names[i]>> ELSE <<>>])

NoError == [type |-> "none", message |-> "", errors |-> <<>>, duplicates |-> <<>>]

\* validateRuntime() without the two minimum checks.
ValidateRuntimeNoMinimum(args) ==
  IF args.stateManagerUri = ""
  THEN [NoError EXCEPT !.type = "Error", !.message = "State manager URI is not set"]
  ELSE IF args.key = ""
  THEN [NoError EXCEPT !.type = "Error", !.message = "API key is not set"]
  ELSE NoError

\* validateRuntime(): the first failing check throws.
ValidateRuntime(args) ==
  IF args.batchSize < 1
  THEN [NoError EXCEPT !.type = "Error", !.message = "Batch size should be at least 1"]
  ELSE IF args.workers < 1
  THEN [NoError EXCEPT !.type = "Error", !.message = "Workers should be at least 1"]
  ELSE IF args.stateManagerUri = ""
  THEN [NoError EXCEPT !.type = "Error", !.message = "State manager URI is not set"]
  ELSE IF args.key = ""
  THEN [NoError EXCEPT !.type = "Error", !.message = "API key is not set"]
  ELSE NoError

\* validateNodes(): a TypeError out of the loop, or one Error with every
\* entry pushed, the duplicated names last.
ValidateNodes(nodes) ==
  LET names == [i \in 1..Len(nodes) |-> nodes[i].name]
      errors == Flatten([i \in 1..Len(nodes) |-> NodeErrors(nodes[i])])
  IN IF \E i \in 1..Len(nodes) : CheckStringsThrows(nodes[i])
     THEN [NoError EXCEPT !.type = "TypeError",
                          !.message = "Cannot read properties of undefined (reading 'shape')"]
     ELSE IF Len(errors) + Len(Duplicates(names)) > 0
     THEN [NoError EXCEPT !.type = "Error", !.message = "Node validation errors",
                          !.errors = errors, !.duplicates = Duplicates(names)]
     ELSE NoError

\* The constructor: validateRuntime(), then validateNodes().
RuntimeNew(args) ==
  IF ValidateRuntime(args).type # "none"
  THEN ValidateRuntime(args)
  ELSE ValidateNodes(ClassesOf(args.nodes))

\* The arguments of the Runtimes under study.
StudyArgs(b) ==
  [batchSize |-> b, workers |-> NumWorkers, stateManagerUri |-> "http://sm",
   key |-> "k", nodes |-> <<"Echo", "Vault">>]

\* -------------------------------------------------------- work items
StateItem(i, n) == [id |-> i, node |-> n]

\* A worker's record of the state it holds: the calls it made for it and
\* what the handler did.
NoResult == [shape |-> "none", objs |-> <<>>]
NoOutcome == [kind |-> "none", message |-> "", data |-> "", delayMs |-> 0,
              result |-> NoResult]

\* A handler object: the state and the delivery of the state whose loop
\* iteration evaluated `new nodeCls()`, and the state whose parsed inputs
\* and secrets _execute has stored in its fields (0: none).
NoInstance == [item |-> 0, serial |-> 0, fieldsOf |-> 0]

NoJob ==
  [id |-> 0, node |-> "", instance |-> NoInstance, secretsCalls |-> 0, executeCalls |-> 0,
   executed |-> 0, errored |-> 0, prune |-> 0, requeue |-> 0,
   outputsBody |-> <<>>, errorBody |-> "", pruneBody |-> "", requeueBody |-> 0,
   outcome |-> "none", handler |-> NoOutcome, stopCause |-> "none"]

NewJob(item) == [NoJob EXCEPT !.id = item.id, !.node = item.node]

Min(a, b) == IF a < b THEN a ELSE b

\* ------------------------------------------------------- AsyncQueue
\* The capacity the constructor gives the queue; put() and get() never read it.
QueueCapacity == 2 * batchSize

\* size(): the length of the buffer.
QueueSize == Len(items)

\* put(item) of a bounded queue: with no consumer waiting and the buffer at
\* capacity the producer is suspended.
AsyncQueuePutBounded(item) ==
  IF Len(resolvers) > 0
  THEN /\ resolvers' = Tail(resolvers)
       /\ items' = items
       /\ wpc' = [wpc EXCEPT ![Head(resolvers)] = "dispatch"]
       /\ job' = [job EXCEPT ![Head(resolvers)] = NewJob(item)]
       /\ delivered' = [delivered EXCEPT ![item.id] = @ + 1]
  ELSE /\ Len(items) < QueueCapacity
       /\ items' = Append(items, item)
       /\ UNCHANGED <<resolvers, wpc, job, delivered>>

\* put(item) that buffers the item it hands to a waiting consumer as well.
AsyncQueuePutKeepsHanded(item) ==
  IF Len(resolvers) > 0
  THEN /\ resolvers' = Tail(resolvers)
       /\ items' = Append(items, item)
       /\ wpc' = [wpc EXCEPT ![Head(resolvers)] = "dispatch"]
       /\ job' = [job EXCEPT ![Head(resolvers)] = NewJob(item)]
       /\ delivered' = [delivered EXCEPT ![item.id] = @ + 1]
  ELSE /\ items' = Append(items, item)
       /\ UNCHANGED <<resolvers, wpc, job, delivered>>

\* put(item) that buffers every item and resolves no consumer.
AsyncQueuePutAlwaysBuffers(item) ==
  /\ items' = Append(items, item)
  /\ UNCHANGED <<resolvers, wpc, job, delivered>>

\* put(item) that hands the item to the consumer that began waiting last.
AsyncQueuePutServesLast(item) ==
  IF Len(resolvers) > 0
  THEN /\ resolvers' = SubSeq(resolvers, 1, Len(resolvers) - 1)
       /\ items' = items
       /\ wpc' = [wpc EXCEPT ![resolvers[Len(resolvers)]] = "dispatch"]
       /\ job' = [job EXCEPT ![resolvers[Len(resolvers)]] = NewJob(item)]
       /\ delivered' = [delivered EXCEPT ![item.id] = @ + 1]
  ELSE /\ items' = Append(items, item)
       /\ UNCHANGED <<resolvers, wpc, job, delivered>>

\* put(item): hand the item to the longest-waiting consumer, or buffer it.
\* The consumer's `await get()` continues in a later step, holding the item.
AsyncQueuePut(item) ==
  IF Len(resolvers) > 0
  THEN /\ resolvers' = Tail(resolvers)
       /\ items' = items
       /\ wpc' = [wpc EXCEPT ![Head(resolvers)] = "dispatch"]
       /\ job' = [job EXCEPT ![Head(resolvers)] = NewJob(item)]
       /\ delivered' = [delivered EXCEPT ![item.id] = @ + 1]
  ELSE /\ items' = Append(items, item)
       /\ UNCHANGED <<resolvers, wpc, job, delivered>>

\* A get() that reads the head of the buffer and leaves it there.
AsyncQueueGetNoShift(w) ==
  IF Len(items) > 0
  THEN /\ wpc' = [wpc EXCEPT ![w] = "dispatch"]
       /\ job' = [job EXCEPT ![w] = NewJob(Head(items))]
       /\ delivered' = [delivered EXCEPT ![Head(items).id] = @ + 1]
       /\ UNCHANGED <<items, resolvers>>
  ELSE /\ resolvers' = Append(resolvers, w)
       /\ wpc' = [wpc EXCEPT ![w] = "waiting"]
       /\ job' = [job EXCEPT ![w] = NoJob]
       /\ UNCHANGED <<items, delivered>>

\* get() that takes the item buffered last.
AsyncQueueGetLast(w) ==
  IF Len(items) > 0
  THEN /\ items' = SubSeq(items, 1, Len(items) - 1)
       /\ resolvers' = resolvers
       /\ wpc' = [wpc EXCEPT ![w] = "dispatch"]
       /\ job' = [job EXCEPT ![w] = NewJob(items[Len(items)])]
       /\ delivered' = [delivered EXCEPT ![items[Len(items)].id] = @ + 1]
  ELSE /\ resolvers' = Append(resolvers, w)
       /\ wpc' = [wpc EXCEPT ![w] = "waiting"]
       /\ job' = [job EXCEPT ![w] = NoJob]
       /\ UNCHANGED <<items, delivered>>

\* get() as worker w calls it at the top of its loop: take the head of the
\* buffer, or suspend as the last of the waiting consumers.
AsyncQueueGet(w) ==
  IF Len(items) > 0
  THEN /\ items' = Tail(items)
       /\ resolvers' = resolvers
       /\ wpc' = [wpc EXCEPT ![w] = "dispatch"]
       /\ job' = [job EXCEPT ![w] = NewJob(Head(items))]
       /\ delivered' = [delivered EXCEPT ![Head(items).id] = @ + 1]
  ELSE /\ resolvers' = Append(resolvers, w)
       /\ wpc' = [wpc EXCEPT ![w] = "waiting"]
       /\ job' = [job EXCEPT ![w] = NoJob]
       /\ UNCHANGED <<items, delivered>>

\* ----------------------------------------------------------- poller
\* Fetching while the buffer is not above the batch size, and fetching
\* whatever the buffer holds.
ShouldFetchUpTo(size) == size <= batchSize
ShouldFetchAlways(size) == TRUE

\* The condition under which an iteration of enqueue() fetches.
ShouldFetch(size) == size < batchSize

\* The head of one iteration of enqueue()'s loop, up to its first await:
\* either the fetch request is sent, or the iteration goes to sleep.
PollerTop ==
  /\ sizeAtCheck' = Len(items)
  /\ resp' = <<>>
  /\ putCount' = 0
  /\ putLog' = <<>>
  /\ IF ShouldFetch(Len(items))
     THEN pollerPc' = "fetching" /\ iter' = "sent"
     ELSE pollerPc' = "sleep" /\ iter' = "skipped"

\* The states of a fetch response: n fresh ids with the given node names.
FetchedStates(n, names) == [k \in 1..n |-> StateItem(nextId + k - 1, names[k])]

\* A failed enqueueCall() whose error leaves enqueue(): the loop is over.
PollerFetchFailsEnds ==
  /\ pollerPc = "fetching"
  /\ \E f \in {"reject", "notok", "malformed"} : iter' = f
  /\ pollerPc' = "ended"
  /\ sizeAtCheck' = 0
  /\ UNCHANGED <<built, upsert, shared, orch, batchSize, startPc, qvars, wvars, nextId, resp, putCount, putLog>>

\* A failed enqueueCall() after which the poller sleeps as after a success.
PollerFetchFailsSleepsOnce ==
  /\ pollerPc = "fetching"
  /\ \E f \in {"reject", "notok", "malformed"} : iter' = f
  /\ pollerPc' = "sleep"
  /\ sizeAtCheck' = 0
  /\ UNCHANGED <<built, upsert, shared, orch, batchSize, startPc, qvars, wvars, nextId, resp, putCount, putLog>>

\* enqueueCall() fails (rejected fetch, non-2xx, body whose states cannot be
\* iterated): the catch block logs and sleeps twice the poll interval.
PollerFetchFails ==
  /\ pollerPc = "fetching"
  /\ \E f \in {"reject", "notok", "malformed"} : iter' = f
  /\ pollerPc' = "sleep2"
  /\ sizeAtCheck' = 0
  /\ UNCHANGED <<built, upsert, shared, orch, batchSize, startPc, qvars, wvars, nextId, resp, putCount, putLog>>

\* enqueueCall() returns states: the first put runs in the same step, every
\* further put after the `await` of the one before.
PollerFetchReturns ==
  /\ pollerPc = "fetching"
  /\ \E n \in 0..Min(batchSize, orch.supply + 1 - nextId) :
       \E names \in [1..n -> orch.names] :
         /\ resp' = FetchedStates(n, names)
         /\ nextId' = nextId + n
         /\ iter' = "got"
         /\ IF n = 0
            THEN /\ pollerPc' = "sleep"
                 /\ UNCHANGED <<qvars, wvars, putCount, putLog>>
            ELSE /\ pollerPc' = "putting"
                 /\ AsyncQueuePut(FetchedStates(n, names)[1])
                 /\ putCount' = 1
                 /\ putLog' = <<FetchedStates(n, names)[1]>>
  /\ sizeAtCheck' = 0
  /\ UNCHANGED <<built, upsert, shared, orch, batchSize, startPc>>

PollerPutNext ==
  /\ pollerPc = "putting"
  /\ putCount < Len(resp)
  /\ AsyncQueuePut(resp[putCount + 1])
  /\ putCount' = putCount + 1
  /\ putLog' = Append(putLog, resp[putCount + 1])
  /\ UNCHANGED <<built, upsert, shared, orch, batchSize, startPc, pollerPc, sizeAtCheck, resp, iter, nextId>>

\* After the last put: log, leave the try block (its local `states` is gone),
\* sleep one poll interval.
PollerPutDone ==
  /\ pollerPc = "putting"
  /\ putCount = Len(resp)
  /\ pollerPc' = "sleep"
  /\ resp' = <<>>
  /\ putLog' = <<>>
  /\ putCount' = 0
  /\ UNCHANGED <<built, upsert, shared, orch, batchSize, startPc, qvars, wvars, sizeAtCheck, iter, nextId>>

\* The default poll interval, in milliseconds, and the delay of the timer
\* the poller is waiting for (0: it waits for none).
PollInterval == 1000

SleepMs ==
  CASE pollerPc = "sleep" -> PollInterval
    [] pollerPc = "sleep2" -> PollInterval * 2
    [] OTHER -> 0

\* The sleep's timer fires and the next iteration begins.
PollerWake ==
  /\ pollerPc \in {"sleep", "sleep2"}
  /\ PollerTop
  /\ UNCHANGED <<built, upsert, shared, orch, batchSize, startPc, qvars, wvars, nextId>>

\* ---------------------------------------------------------- handlers
\* Values a handler can return: objects "a" and "b" conform to the node's
\* Outputs schema, "bad" does not.
GoodObjs == {"a", "b"}
EmptyObj == "{}"

\* "a+" is the object "a" with one more key, which the Outputs schema does
\* not declare: a z.object schema accepts it and leaves the key out of what
\* parse returns.
ExtraKeyObjs == {"a+"}

Results ==
  {[shape |-> "object", objs |-> <<o>>] : o \in {"a", "bad"}}
    \cup {[shape |-> "array", objs |-> s] :
            s \in {<<>>, <<"a", "b">>, <<"a", "bad">>}}
    \cup {[shape |-> "null", objs |-> <<>>], [shape |-> "undefined", objs |-> <<>>]}

\* A constructor that accepts every delay.
ReQueueAfterSignalNewUnchecked(delayMs) ==
  [NoOutcome EXCEPT !.kind = "requeue", !.delayMs = delayMs]

\* new ReQueueAfterSignal(delayMs): the constructor throws a plain Error for
\* a delay that is not positive, and the handler then raises that Error.
ReQueueAfterSignalNew(delayMs) ==
  IF delayMs <= 0
  THEN [NoOutcome EXCEPT !.kind = "throw",
                         !.message = "Delay must be greater than 0"]
  ELSE [NoOutcome EXCEPT !.kind = "requeue", !.delayMs = delayMs]

\* What execute() can do: return a result, throw an Error, raise a
\* PruneSignal with its data, or construct and raise a ReQueueAfterSignal.
HandlerOutcomes ==
  {[NoOutcome EXCEPT !.kind = "return", !.result = r] : r \in Results}
    \cup {[NoOutcome EXCEPT !.kind = "throw", !.message = "boom"]}
    \cup {[NoOutcome EXCEPT !.kind = "prune", !.data = d] : d \in {"{}", "reason"}}
    \cup {ReQueueAfterSignalNew(d) : d \in {-1000, 0, 1000}}

\* Messages of the errors the runtime itself meets.
ZodErrorMessage == "ZodError"
FetchFailedMessage == "fetch failed"
ShapeOfUndefinedMessage == "Cannot read properties of undefined (reading 'shape')"

\* this.nodeMapping[state.node_name] on the plain object built by
\* Object.fromEntries: an own entry (a node class), a member inherited from
\* Object.prototype (the Object constructor, or a method that `new` cannot
\* construct), or undefined.
NodeMappingLookup(name) ==
  IF name \in RegisteredNames THEN "node"
  ELSE IF name = "constructor" THEN "Object"
  ELSE IF name = "toString" THEN "method"
  ELSE "undefined"

\* Fetching secrets for every node, whatever its Secrets schema.
NeedSecretsAlways(name) == TRUE

NeedSecrets(name) == Cardinality(SecretKeys(name)) > 0

\* outputsSchema.parse(o) succeeds on the conforming objects and on those
\* with undeclared keys; it returns a new object of the declared keys.
OutputsParseOk(o) == o \in GoodObjs \cup ExtraKeyObjs

OutputsParse(o) == IF o \in ExtraKeyObjs THEN "a" ELSE o

\* A result that is never checked against the Outputs schema.
ExecuteResultUnchecked(r) == TRUE

\* The tail of BaseNode._execute: whether the handler's result passes the
\* Outputs schema, and what _execute then returns.
ExecuteResultOk(r) ==
  CASE r.shape = "array" -> \A k \in 1..Len(r.objs) : OutputsParseOk(r.objs[k])
    [] r.shape = "null" -> TRUE
    [] r.shape = "object" -> OutputsParseOk(r.objs[1])
    [] OTHER -> FALSE

ExecuteResult(r) ==
  IF r.shape = "null"
  THEN [shape |-> "object", objs |-> <<EmptyObj>>]
  ELSE [r EXCEPT !.objs = [k \in 1..Len(r.objs) |-> OutputsParse(r.objs[k])]]

\* An outArray in the reverse of the handler's order.
OutArrayReversed(outputs) ==
  [k \in 1..Len(outputs.objs) |-> outputs.objs[Len(outputs.objs) + 1 - k]]

\* const outArray = Array.isArray(outputs) ? outputs : [outputs]
OutArray(outputs) == outputs.objs

\* Reporting String(err) in place of err.message.
ErrorMessageString(message) == "Error: " \o message

\* The message notifyErrored is given for a caught error.
ErrorMessage(message) == message

\* A requeue report that sends the delay in seconds.
ReQueueAfterSendSeconds(j, delayMs) ==
  [j EXCEPT !.requeue = @ + 1, !.requeueBody = delayMs \div 1000]

\* The worker's calls, as changes of its job record.
NotifyExecutedCall(j, outputs) ==
  [j EXCEPT !.executed = @ + 1, !.outputsBody = outputs]
NotifyErroredCall(j, error) ==
  [j EXCEPT !.errored = @ + 1, !.errorBody = error]
PruneSend(j, data) ==
  [j EXCEPT !.prune = @ + 1, !.pruneBody = data]
ReQueueAfterSend(j, delayMs) ==
  [j EXCEPT !.requeue = @ + 1, !.requeueBody = delayMs]
GetSecretsCall(j) ==
  [j EXCEPT !.secretsCalls = @ + 1]

\* The catch block of the worker for an error that is no signal.
CatchError(j, message) == NotifyErroredCall(j, ErrorMessage(message))

\* A catch block whose PruneSignal branch falls through to the branch of
\* the plain errors.
CatchPruneFallsThrough(j, data) ==
  NotifyErroredCall(PruneSend(j, data), "Prune signal received")

\* The catch block for a PruneSignal and for a ReQueueAfterSignal: the
\* signal's own send() makes the one report call.
CatchPrune(j, data) == PruneSend(j, data)
CatchReQueueAfter(j, delayMs) == ReQueueAfterSend(j, delayMs)

\* ---------------------------------------------------------- workers
Goto(w, pc, j) ==
  /\ wpc' = [wpc EXCEPT ![w] = pc]
  /\ job' = [job EXCEPT ![w] = j]

\* An error leaves the worker's async function: its promise rejects and the
\* loop is over; no other task is touched.  The record keeps which state the
\* worker held, what had happened to it and what ended the loop.
Stopped(j, cause) ==
  [NoJob EXCEPT !.id = j.id, !.node = j.node, !.outcome = j.outcome,
                !.stopCause = cause]

\* An error of one worker that ends every worker's loop.
WorkerStopsAll(w, j, cause) ==
  /\ wpc' = [v \in Workers |-> "stopped"]
  /\ job' = [job EXCEPT ![w] = Stopped(j, cause)]
  /\ UNCHANGED <<qvars, delivered>>

WorkerStops(w, j, cause) ==
  /\ Goto(w, "stopped", Stopped(j, cause))
  /\ UNCHANGED <<qvars, delivered>>

\* The worker is through with its state and, in the same step, calls get()
\* at the top of its loop.
WorkerLoops(w) == AsyncQueueGet(w)

\* An _execute that parses the inputs only and takes the secrets as given.
BeginExecuteSecretsUnparsed(w, j, secrets) ==
  \E inputsOk \in BOOLEAN :
    IF inputsOk
    THEN Goto(w, "executing", [j EXCEPT !.executeCalls = @ + 1,
                                        !.instance.fieldsOf = j.id])
    ELSE Goto(w, "awaitErrored",
              CatchError([j EXCEPT !.outcome = "invalidInput"], ZodErrorMessage))

\* One handler object per worker, created before its loop and used for
\* every state the worker takes.
NewNodePerWorker(w, j) ==
  [j EXCEPT !.instance = [item |-> 0, serial |-> w, fieldsOf |-> 0]]

\* `const node = new nodeCls()` in the loop body: every iteration, that is
\* every delivery of a state, has an object of its own.
NewNode(w, j) ==
  [j EXCEPT !.instance = [item |-> j.id, serial |-> delivered[j.id], fieldsOf |-> 0]]

\* BaseNode._execute up to the call of execute(): parse the inputs and the
\* secrets, then invoke the handler.  A parse failure is thrown into the
\* worker's catch block.
BeginExecute(w, j, secrets) ==
  \E inputsOk \in BOOLEAN :
    IF inputsOk /\ SecretKeys(j.node) \subseteq secrets
    THEN Goto(w, "executing", [j EXCEPT !.executeCalls = @ + 1,
                                        !.instance.fieldsOf = j.id])
    ELSE Goto(w, "awaitErrored",
              CatchError([j EXCEPT !.outcome = "invalidInput"], ZodErrorMessage))

\* An unknown node whose errored report is sent without being awaited: the
\* worker calls get() at once.
WorkerUnknownNodeNoAwait(w) ==
  /\ wpc[w] = "dispatch"
  /\ NodeMappingLookup(job[w].node) = "undefined"
  /\ WorkerLoops(w)
  /\ UNCHANGED <<built, upsert, shared, orch, batchSize, startPc, pvars>>

\* nodeMapping has nothing under the name: report "Unknown node", continue.
WorkerUnknownNode(w) ==
  /\ wpc[w] = "dispatch"
  /\ NodeMappingLookup(job[w].node) = "undefined"
  /\ Goto(w, "awaitErrored",
          NotifyErroredCall([job[w] EXCEPT !.outcome = "unknown"], "Unknown node"))
  /\ UNCHANGED <<built, upsert, shared, orch, batchSize, startPc, qvars, pvars, delivered>>

\* nodeMapping yields an inherited method: `new nodeCls()` throws a TypeError
\* before the try block.
WorkerNewThrows(w) ==
  /\ wpc[w] = "dispatch"
  /\ NodeMappingLookup(job[w].node) = "method"
  /\ WorkerStops(w, [job[w] EXCEPT !.outcome = "notConstructor"], "new")
  /\ UNCHANGED <<built, upsert, shared, orch, batchSize, startPc, pvars>>

\* nodeMapping yields the Object constructor: `new Object()` succeeds and
\* needSecrets throws inside the try block on Object.Secrets.shape.
WorkerNotANode(w) ==
  /\ wpc[w] = "dispatch"
  /\ NodeMappingLookup(job[w].node) = "Object"
  /\ Goto(w, "awaitErrored",
          CatchError([NewNode(w, job[w]) EXCEPT !.outcome = "notANode"],
                     ShapeOfUndefinedMessage))
  /\ UNCHANGED <<built, upsert, shared, orch, batchSize, startPc, qvars, pvars, delivered>>

\* A registered node: fetch the secrets if the class declares any, else go
\* straight into _execute with {}.
WorkerDispatch(w) ==
  /\ wpc[w] = "dispatch"
  /\ NodeMappingLookup(job[w].node) = "node"
  /\ IF NeedSecrets(job[w].node)
     THEN Goto(w, "awaitSecrets", GetSecretsCall(NewNode(w, job[w])))
     ELSE BeginExecute(w, NewNode(w, job[w]), {})
  /\ UNCHANGED <<built, upsert, shared, orch, batchSize, startPc, qvars, pvars, delivered>>

\* How the orchestrator answers a secrets request: any way each time, or
\* the one way it was set up to answer every such request.  "nofield" is a
\* 2xx response whose body has no 'secrets'.
SecretsResponses ==
  IF orch.vault = "any" THEN Responses \cup {"nofield"} ELSE {orch.vault}

\* getSecrets comes back: the secrets of a 2xx response that has them, {}
\* for a non-2xx response or a body without 'secrets'; a rejected fetch is
\* thrown into the catch block.
WorkerSecretsReturn(w) ==
  /\ wpc[w] = "awaitSecrets"
  /\ \E r \in SecretsResponses :
       CASE r = "reject" ->
              Goto(w, "awaitErrored",
                   CatchError([job[w] EXCEPT !.outcome = "secretsRejected"],
                              FetchFailedMessage))
         [] r = "ok" -> BeginExecute(w, job[w], SecretKeys(job[w].node))
         [] OTHER -> BeginExecute(w, job[w], {})
  /\ UNCHANGED <<built, upsert, shared, orch, batchSize, startPc, qvars, pvars, delivered>>

\* execute() settles and the rest of _execute and of the try block, or the
\* catch block, runs up to the report call.
AfterExecute(w, o) ==
  LET j == [job[w] EXCEPT !.handler = o] IN
  CASE o.kind = "return" /\ ExecuteResultOk(o.result) ->
         Goto(w, "awaitExecuted",
              NotifyExecutedCall([j EXCEPT !.outcome = "returned"],
                                 OutArray(ExecuteResult(o.result))))
    [] o.kind = "return" /\ ~ExecuteResultOk(o.result) ->
         Goto(w, "awaitErrored",
              CatchError([j EXCEPT !.outcome = "invalidOutput"], ZodErrorMessage))
    [] o.kind = "throw" ->
         Goto(w, "awaitErrored",
              CatchError([j EXCEPT !.outcome = "threw"], o.message))
    [] o.kind = "prune" ->
         Goto(w, "awaitPrune", CatchPrune([j EXCEPT !.outcome = "prune"], o.data))
    [] o.kind = "requeue" ->
         Goto(w, "awaitRequeue",
              CatchReQueueAfter([j EXCEPT !.outcome = "requeue"], o.delayMs))

WorkerExecuteReturn(w) ==
  /\ wpc[w] = "executing"
  /\ \E o \in HandlerOutcomes : AfterExecute(w, o)
  /\ UNCHANGED <<built, upsert, shared, orch, batchSize, startPc, qvars, pvars, delivered>>

\* notifyExecuted comes back: a non-2xx response is logged; a rejected fetch
\* is thrown inside the try block, so the catch block reports it as errored.
WorkerExecutedReturn(w) ==
  /\ wpc[w] = "awaitExecuted"
  /\ \E r \in Responses :
       IF r = "reject"
       THEN /\ Goto(w, "awaitErrored", CatchError(job[w], FetchFailedMessage))
            /\ UNCHANGED <<qvars, delivered>>
       ELSE WorkerLoops(w)
  /\ UNCHANGED <<built, upsert, shared, orch, batchSize, startPc, pvars>>

\* A worker that runs the handler once more after it has reported the
\* handler's error.
WorkerErroredReturnRetries(w) ==
  /\ wpc[w] = "awaitErrored"
  /\ \E r \in Responses :
       IF r = "reject"
       THEN WorkerStops(w, job[w], "notifyErrored")
       ELSE IF job[w].outcome = "threw" /\ job[w].executeCalls < 2
            THEN /\ Goto(w, "executing", [job[w] EXCEPT !.executeCalls = @ + 1])
                 /\ UNCHANGED <<qvars, delivered>>
            ELSE WorkerLoops(w)
  /\ UNCHANGED <<built, upsert, shared, orch, batchSize, startPc, pvars>>

\* notifyErrored comes back: a non-2xx response is logged; a rejected fetch
\* is thrown where nothing catches it.
WorkerErroredReturn(w) ==
  /\ wpc[w] = "awaitErrored"
  /\ \E r \in Responses :
       IF r = "reject"
       THEN WorkerStops(w, job[w], "notifyErrored")
       ELSE WorkerLoops(w)
  /\ UNCHANGED <<built, upsert, shared, orch, batchSize, startPc, pvars>>

\* How the orchestrator answers the request of a signal's send(): any way
\* each time, or the one way it was set up to answer every such request.
SignalResponses == IF orch.ack = "any" THEN Responses ELSE {orch.ack}

\* A send() that throws only when fetch itself rejects, whatever the status
\* of the response.
WorkerSignalReturnIgnoresStatus(w) ==
  /\ wpc[w] \in {"awaitPrune", "awaitRequeue"}
  /\ \E r \in SignalResponses :
       IF r # "reject"
       THEN WorkerLoops(w)
       ELSE WorkerStops(w, job[w], "send")
  /\ UNCHANGED <<built, upsert, shared, orch, batchSize, startPc, pvars>>

\* A signal's send() comes back: it throws unless the response is 2xx, and
\* nothing catches what it throws.
WorkerSignalReturn(w) ==
  /\ wpc[w] \in {"awaitPrune", "awaitRequeue"}
  /\ \E r \in SignalResponses :
       IF r = "ok"
       THEN WorkerLoops(w)
       ELSE WorkerStops(w, job[w], "send")
  /\ UNCHANGED <<built, upsert, shared, orch, batchSize, startPc, pvars>>

\* start() that does not wait for register(): the poller and the workers
\* begin while the registration call is pending.
StartWithoutAwait ==
  /\ startPc = "constructed"
  /\ startPc' = "registering"
  /\ PollerTop
  /\ resolvers' = [k \in 1..NumWorkers |-> k]
  /\ wpc' = [w \in Workers |-> "waiting"]
  /\ UNCHANGED <<built, upsert, shared, orch, batchSize, items, nextId, job, delivered>>

\* ------------------------------------------------------------ start
\* start(): the registration request is sent.
Start ==
  /\ startPc = "constructed"
  /\ startPc' = "registering"
  /\ UNCHANGED <<built, upsert, shared, orch, batchSize, qvars, pvars, wvars>>

\* register() fails: startInternal rejects, nothing else is started.
RegisterFails ==
  /\ startPc = "registering"
  /\ startPc' = "failed"
  /\ UNCHANGED <<built, upsert, shared, orch, batchSize, qvars, pvars, wvars>>

\* A startInternal that starts the poller and a single worker, whatever the
\* configured number.
RegisterReturnsOneWorker ==
  /\ startPc = "registering"
  /\ startPc' = "running"
  /\ PollerTop
  /\ resolvers' = <<1>>
  /\ wpc' = [w \in Workers |-> IF w = 1 THEN "waiting" ELSE "unstarted"]
  /\ UNCHANGED <<built, upsert, shared, orch, batchSize, items, nextId, job, delivered>>

\* register() succeeds: enqueue() runs up to its fetch request, then each
\* worker(idx) runs up to its get() on the empty queue, in index order.
RegisterReturns ==
  /\ startPc = "registering"
  /\ startPc' = "running"
  /\ PollerTop
  /\ resolvers' = [k \in 1..NumWorkers |-> k]
  /\ wpc' = [w \in Workers |-> "waiting"]
  /\ UNCHANGED <<built, upsert, shared, orch, batchSize, items, nextId, job, delivered>>

\* ------------------------------------------------------ specification
InitRuntime ==
  /\ batchSize \in BatchSizes
  /\ built = [args |-> StudyArgs(batchSize), error |-> NoError]
  /\ upsert = NoUpsert
  /\ shared = NoShared
  /\ startPc = "constructed"
  /\ items = <<>>
  /\ resolvers = <<>>
  /\ nextId = 1
  /\ pollerPc = "unstarted"
  /\ sizeAtCheck = 0
  /\ resp = <<>>
  /\ putCount = 0
  /\ putLog = <<>>
  /\ iter = "none"
  /\ wpc = [w \in Workers |-> "unstarted"]
  /\ job = [w \in Workers |-> NoJob]
  /\ delivered = [i \in 1..orch.supply |-> 0]

Init ==
  /\ orch = [supply |-> MaxItems, names |-> NodeNames, ack |-> "any", vault |-> "any"]
  /\ InitRuntime

Next ==
  \/ Start
  \/ RegisterFails
  \/ RegisterReturns
  \/ PollerFetchFails
  \/ PollerFetchReturns
  \/ PollerPutNext
  \/ PollerPutDone
  \/ PollerWake
  \/ \E w \in Workers : WorkerUnknownNode(w)
  \/ \E w \in Workers : WorkerNewThrows(w)
  \/ \E w \in Workers : WorkerNotANode(w)
  \/ \E w \in Workers : WorkerDispatch(w)
  \/ \E w \in Workers : WorkerSecretsReturn(w)
  \/ \E w \in Workers : WorkerExecuteReturn(w)
  \/ \E w \in Workers : WorkerExecutedReturn(w)
  \/ \E w \in Workers : WorkerErroredReturn(w)
  \/ \E w \in Workers : WorkerSignalReturn(w)

Spec == Init /\ [][Next]_vars

\* ------------------------------------- the workers seen from the queue
\* Whatever a worker does with the state it holds (lines 443-482) touches
\* the queue in one way only: it ends by calling get() again, or with an
\* error that ends the loop.  With the handling of a state taken as one step
\* the orchestrator can hand out enough states to fill the buffer.
WorkerHandles(w) ==
  /\ wpc[w] = "dispatch"
  /\ WorkerLoops(w)
  /\ UNCHANGED <<built, upsert, shared, orch, batchSize, startPc, pvars>>

WorkerFails(w) ==
  /\ wpc[w] = "dispatch"
  /\ WorkerStops(w, job[w], "error")
  /\ UNCHANGED <<built, upsert, shared, orch, batchSize, startPc, pvars>>

InitPoller ==
  /\ orch = [supply |-> MaxFetched, names |-> {"Echo"}, ack |-> "any", vault |-> "any"]
  /\ InitRuntime

NextPoller ==
  \/ Start
  \/ RegisterFails
  \/ RegisterReturns
  \/ PollerFetchFails
  \/ PollerFetchReturns
  \/ PollerPutNext
  \/ PollerPutDone
  \/ PollerWake
  \/ \E w \in Workers : WorkerHandles(w)
  \/ \E w \in Workers : WorkerFails(w)

SpecPoller == InitPoller /\ [][NextPoller]_vars

\* ------------------------------------------------- the queue by itself
\* An AsyncQueue constructed with capacity 2 x batchSize, a producer that
\* calls put() with one fresh state after another, and consumers that call
\* get() when they are idle or have received a state.
QueuePut ==
  /\ nextId <= orch.supply
  /\ AsyncQueuePut(StateItem(nextId, "Echo"))
  /\ nextId' = nextId + 1
  /\ UNCHANGED <<built, upsert, shared, orch, batchSize, startPc, pollerPc, sizeAtCheck, resp, putCount,
                 putLog, iter>>

QueueGet(w) ==
  /\ wpc[w] \in {"unstarted", "dispatch"}
  /\ AsyncQueueGet(w)
  /\ UNCHANGED <<built, upsert, shared, orch, batchSize, startPc, pvars>>

NextQueue ==
  \/ QueuePut
  \/ \E w \in Workers : QueueGet(w)

SpecQueue == InitPoller /\ [][NextQueue]_vars

\* ------------------------------------------- a handler's result by itself
\* Every result a handler can return with up to MaxOutputs objects, among
\* them objects with an undeclared key and objects the schema rejects.
RECURSIVE SeqsUpTo(_, _)
SeqsUpTo(S, n) ==
  IF n = 0 THEN {<<>>}
  ELSE SeqsUpTo(S, n - 1) \cup [1..n -> S]

ResultsWide ==
  {[shape |-> "object", objs |-> <<o>>] : o \in GoodObjs \cup ExtraKeyObjs \cup {"bad"}}
    \cup {[shape |-> "array", objs |-> s] :
            s \in SeqsUpTo(GoodObjs \cup ExtraKeyObjs \cup {"bad"}, MaxOutputs)}
    \cup {[shape |-> "null", objs |-> <<>>], [shape |-> "undefined", objs |-> <<>>]}

\* The first fetch returned one state of node Echo, which went to worker 1;
\* its execute() is running, the poller sleeps.
InitOutputs ==
  /\ orch = [supply |-> MaxItems, names |-> NodeNames, ack |-> "any", vault |-> "any"]
  /\ batchSize \in BatchSizes
  /\ built = [args |-> StudyArgs(batchSize), error |-> NoError]
  /\ upsert = NoUpsert
  /\ shared = NoShared
  /\ startPc = "running"
  /\ items = <<>>
  /\ resolvers = <<2>>
  /\ nextId = 2
  /\ pollerPc = "sleep"
  /\ sizeAtCheck = 0
  /\ resp = <<>>
  /\ putCount = 0
  /\ putLog = <<>>
  /\ iter = "got"
  /\ wpc = [w \in Workers |-> IF w = 1 THEN "executing" ELSE "waiting"]
  /\ job = [w \in Workers |->
             IF w = 1
             THEN [NewJob(StateItem(1, "Echo")) EXCEPT
                     !.executeCalls = 1,
                     !.instance = [item |-> 1, serial |-> 1, fieldsOf |-> 1]]
             ELSE NoJob]
  /\ delivered = [i \in 1..MaxItems |-> IF i = 1 THEN 1 ELSE 0]

\* execute() returns one of the results.
HandlerReturns(w) ==
  /\ wpc[w] = "executing"
  /\ \E r \in ResultsWide :
       AfterExecute(w, [NoOutcome EXCEPT !.kind = "return", !.result = r])
  /\ UNCHANGED <<built, upsert, shared, orch, batchSize, startPc, qvars, pvars, delivered>>

NextOutputs == \E w \in Workers : HandlerReturns(w)

SpecOutputs == InitOutputs /\ [][NextOutputs]_vars

\* ------------------------------------------------ the constructor by itself
\* Arguments `new Runtime(namespace, name, nodes, options)` can be given:
\* batch sizes and worker counts around the minimum, a URI and a key that
\* are set or not, and every list of up to MaxNodes handler classes.
ArgsSpace ==
  [batchSize : {-1, 0} \cup BatchSizes,
   workers : {-1, 0, NumWorkers},
   stateManagerUri : {"", "http://sm"},
   key : {"", "k"},
   nodes : SeqsUpTo(NodeClassIds, MaxNodes)]

\* The constructor has assigned its fields (lines 216-224) and is about to
\* validate.
InitConstruct ==
  /\ orch = [supply |-> MaxItems, names |-> NodeNames, ack |-> "any", vault |-> "any"]
  /\ \E args \in ArgsSpace :
       /\ built = [args |-> args, error |-> NoError]
       /\ batchSize = args.batchSize
  /\ upsert = NoUpsert
  /\ shared = NoShared
  /\ startPc = "constructing"
  /\ items = <<>>
  /\ resolvers = <<>>
  /\ nextId = 1
  /\ pollerPc = "unstarted"
  /\ sizeAtCheck = 0
  /\ resp = <<>>
  /\ putCount = 0
  /\ putLog = <<>>
  /\ iter = "none"
  /\ wpc = [w \in Workers |-> "unstarted"]
  /\ job = [w \in Workers |-> NoJob]
  /\ delivered = [i \in 1..orch.supply |-> 0]

\* validateRuntime() and validateNodes(): the constructor returns the
\* Runtime, or throws and there is no Runtime to start.
Construct ==
  /\ startPc = "constructing"
  /\ built' = [built EXCEPT !.error = RuntimeNew(built.args)]
  /\ startPc' = IF RuntimeNew(built.args).type = "none" THEN "constructed" ELSE "rejected"
  /\ UNCHANGED <<upsert, shared, orch, batchSize, qvars, pvars, wvars>>

NextConstruct ==
  \/ Construct
  \/ Start
  \/ RegisterFails
  \/ RegisterReturns

SpecConstruct == InitConstruct /\ [][NextConstruct]_vars

\* ------------------------------------------------------------ fairness
\* What the event loop guarantees once start() has been called: a pending
\* network call settles, a timer fires, and a task whose await has settled
\* is resumed.  Calling start() at all is the application's choice.
FairPoller ==
  /\ WF_vars(RegisterFails \/ RegisterReturns)
  /\ WF_vars(PollerFetchFails \/ PollerFetchReturns)
  /\ WF_vars(PollerPutNext)
  /\ WF_vars(PollerPutDone)
  /\ WF_vars(PollerWake)

SpecPollerFair ==
  /\ SpecPoller
  /\ FairPoller
  /\ \A w \in Workers : WF_vars(WorkerHandles(w) \/ WorkerFails(w))

\* Every step of worker w is a continuation of a settled await.
WorkerStep(w) ==
  \/ WorkerUnknownNode(w)
  \/ WorkerNewThrows(w)
  \/ WorkerNotANode(w)
  \/ WorkerDispatch(w)
  \/ WorkerSecretsReturn(w)
  \/ WorkerExecuteReturn(w)
  \/ WorkerExecutedReturn(w)
  \/ WorkerErroredReturn(w)
  \/ WorkerSignalReturn(w)

InitFair ==
  /\ orch = [supply |-> MaxLive, names |-> NodeNames, ack |-> "any", vault |-> "any"]
  /\ InitRuntime

SpecFair ==
  /\ InitFair
  /\ [][Next]_vars
  /\ FairPoller
  /\ \A w \in Workers : WF_vars(WorkerStep(w))

\* --------------------------------------------- signals, answer by answer
\* The Runtime facing an orchestrator that gives every send() of a signal
\* the same answer: a 2xx response, a non-2xx response, or no response.
InitSignals ==
  /\ \E a \in Responses : orch = [supply |-> MaxLive, names |-> NodeNames, ack |-> a,
                                 vault |-> "any"]
  /\ InitRuntime

SpecSignals == InitSignals /\ [][Next]_vars

\* ------------------------------------------ upsertGraph, call by call
\* upsertGraph has been called and its PUT request is in flight.
InitUpsert ==
  /\ orch = [supply |-> MaxItems, names |-> NodeNames, ack |-> "any", vault |-> "any"]
  /\ batchSize \in BatchSizes
  /\ built = [args |-> StudyArgs(batchSize), error |-> NoError]
  /\ \E t \in ValidationTimeouts, i \in PollingIntervals :
       upsert = [NoUpsert EXCEPT !.pc = "putting", !.timeout = t, !.interval = i]
  /\ shared = NoShared
  /\ startPc = "constructed"
  /\ items = <<>>
  /\ resolvers = <<>>
  /\ nextId = 1
  /\ pollerPc = "unstarted"
  /\ sizeAtCheck = 0
  /\ resp = <<>>
  /\ putCount = 0
  /\ putLog = <<>>
  /\ iter = "none"
  /\ wpc = [w \in Workers |-> "unstarted"]
  /\ job = [w \in Workers |-> NoJob]
  /\ delivered = [i \in 1..orch.supply |-> 0]

\* Everything of the Runtime, which upsertGraph does not touch.
rvars == <<built, shared, orch, batchSize, startPc, qvars, pvars, wvars>>

\* The PUT comes back: a rejected fetch or a status other than 200 and 201
\* is thrown; otherwise the clock starts and the loop is entered with the
\* status of the body.
UpsertPutReturns ==
  /\ upsert.pc = "putting"
  /\ \E r \in Responses :
       IF r # "ok"
       THEN upsert' = [upsert EXCEPT !.pc = "threw", !.error = "put"]
       ELSE \E s \in GraphStatuses :
              upsert' = UpsertLoop([upsert EXCEPT !.status = s, !.elapsed = 0])
  /\ UNCHANGED rvars

\* The polling timer fires, no sooner than the interval, and getGraph sends
\* its request.
UpsertTimerFires ==
  /\ upsert.pc = "sleeping"
  /\ \E d \in Delays :
       upsert' = [upsert EXCEPT !.pc = "getting", !.polls = @ + 1,
                                !.elapsed = @ + upsert.interval + d]
  /\ UNCHANGED rvars

\* getGraph comes back: it throws on a rejected fetch and on a non-2xx
\* response; otherwise the loop goes on with the status of the body.
UpsertGetReturns ==
  /\ upsert.pc = "getting"
  /\ \E r \in Responses :
       IF r # "ok"
       THEN upsert' = [upsert EXCEPT !.pc = "threw", !.error = "get"]
       ELSE \E s \in GraphStatuses, d \in Delays :
              upsert' = UpsertLoop([upsert EXCEPT !.status = s, !.elapsed = @ + d])
  /\ UNCHANGED rvars

NextUpsert == UpsertPutReturns \/ UpsertTimerFires \/ UpsertGetReturns

SpecUpsert == InitUpsert /\ [][NextUpsert]_vars

\* ------------------------------------- _execute calls on one node object
\* How many _execute calls are made on the object, what they can be given,
\* and what execute() computes from this.inputs and this.secrets.
MaxCalls == 2
Calls == 1..MaxCalls
InputValues == {"ann", "bob"}
SecretValues == {"k1", "k2"}
Output(inputs, secrets) == [message |-> "Hello " \o inputs, token |-> secrets]

NoCall == [pc |-> "idle", out |-> [message |-> "", token |-> ""]]

\* A node object whose execute() reads this.inputs and this.secrets either
\* before its first await ("early", as the test's ValidNode does) or after
\* one ("late"), and the arguments each call is going to pass.
InitShared ==
  /\ orch = [supply |-> MaxItems, names |-> NodeNames, ack |-> "any", vault |-> "any"]
  /\ batchSize \in BatchSizes
  /\ built = [args |-> StudyArgs(batchSize), error |-> NoError]
  /\ upsert = NoUpsert
  /\ \E h \in {"early", "late"} :
       \E a \in [Calls -> [inputs : InputValues, secrets : SecretValues]] :
         shared = [handler |-> h, inputs |-> "", secrets |-> "", args |-> a,
                   calls |-> [c \in Calls |-> NoCall]]
  /\ startPc = "constructed"
  /\ items = <<>>
  /\ resolvers = <<>>
  /\ nextId = 1
  /\ pollerPc = "unstarted"
  /\ sizeAtCheck = 0
  /\ resp = <<>>
  /\ putCount = 0
  /\ putLog = <<>>
  /\ iter = "none"
  /\ wpc = [w \in Workers |-> "unstarted"]
  /\ job = [w \in Workers |-> NoJob]
  /\ delivered = [i \in 1..orch.supply |-> 0]

\* Everything but the node object.
nvars == <<built, upsert, orch, batchSize, startPc, qvars, pvars, wvars>>

\* node._execute(inputs, secrets) up to its first suspension: both are
\* parsed and stored in the object's fields, execute() is called and runs
\* to its first await, or to its end if it has none.
ExecuteCall(c) ==
  /\ shared.calls[c].pc = "idle"
  /\ LET a == shared.args[c] IN
       shared' = [shared EXCEPT
         !.inputs = a.inputs,
         !.secrets = a.secrets,
         !.calls[c] = IF shared.handler = "early"
                      THEN [pc |-> "settled", out |-> Output(a.inputs, a.secrets)]
                      ELSE [pc |-> "inHandler", out |-> NoCall.out]]
  /\ UNCHANGED nvars

\* execute() resumes after its await and computes its result from what the
\* object's fields hold by now.
HandlerResumes(c) ==
  /\ shared.calls[c].pc = "inHandler"
  /\ shared' = [shared EXCEPT
       !.calls[c] = [pc |-> "settled", out |-> Output(shared.inputs, shared.secrets)]]
  /\ UNCHANGED nvars

\* `await this.execute()` resumes; the result passes Outputs.parse and is
\* returned.
ExecuteReturns(c) ==
  /\ shared.calls[c].pc = "settled"
  /\ shared' = [shared EXCEPT !.calls[c].pc = "returned"]
  /\ UNCHANGED nvars

NextShared == \E c \in Calls : ExecuteCall(c) \/ HandlerResumes(c) \/ ExecuteReturns(c)

SpecShared == InitShared /\ [][NextShared]_vars

\* ------------------------------------------- handlers that hold secrets
\* The value the orchestrator returns for Vault's secret field, and the
\* messages of the errors a Vault handler can throw: two plain ones and one
\* that quotes this.secrets.api_key.
SecretValue == "s3cret"
MessagesWide == {"boom", "denied", "bad key " \o SecretValue}

\* The line logger.error is given in the catch block for a plain error:
\* the template ends with String(err), which is "Error: " + err.message.
ErrorLogLine(message) == "Error executing state: Error: " \o message

\* Whether a text ends with a value after one of the openings the
\* runtime's texts can have.
TextOpenings == {"", "bad key ", ErrorLogLine("bad key ")}
Contains(text, v) == \E p \in TextOpenings : text = p \o v

\* Both workers hold a state of node Vault and wait for its secrets; the
\* poller sleeps.
InitSecrets ==
  /\ \E r \in Responses \cup {"nofield"} :
       orch = [supply |-> MaxItems, names |-> NodeNames, ack |-> "any", vault |-> r]
  /\ batchSize \in BatchSizes
  /\ built = [args |-> StudyArgs(batchSize), error |-> NoError]
  /\ upsert = NoUpsert
  /\ shared = NoShared
  /\ startPc = "running"
  /\ items = <<>>
  /\ resolvers = <<>>
  /\ nextId = NumWorkers + 1
  /\ pollerPc = "sleep"
  /\ sizeAtCheck = 0
  /\ resp = <<>>
  /\ putCount = 0
  /\ putLog = <<>>
  /\ iter = "got"
  /\ wpc = [w \in Workers |-> "awaitSecrets"]
  /\ job = [w \in Workers |->
             GetSecretsCall([NewJob(StateItem(w, "Vault")) EXCEPT
                               !.instance = [item |-> w, serial |-> 1, fieldsOf |-> 0]])]
  /\ delivered = [i \in 1..MaxItems |-> IF i \in Workers THEN 1 ELSE 0]

\* execute() of a Vault handler returns a valid object or throws an Error
\* with one of the messages.
HandlerSettles(w) ==
  /\ wpc[w] = "executing"
  /\ \E o \in {[NoOutcome EXCEPT !.kind = "return",
                                  !.result = [shape |-> "object", objs |-> <<"a">>]]}
               \cup {[NoOutcome EXCEPT !.kind = "throw", !.message = m] :
                       m \in MessagesWide} :
       AfterExecute(w, o)
  /\ UNCHANGED <<built, upsert, shared, orch, batchSize, startPc, qvars, pvars, delivered>>

NextSecrets ==
  \E w \in Workers :
    \/ WorkerSecretsReturn(w)
    \/ HandlerSettles(w)
    \/ WorkerExecutedReturn(w)
    \/ WorkerErroredReturn(w)

SpecSecrets == InitSecrets /\ [][NextSecrets]_vars

\* ------------------------------------------------- the promise of start()
\* The promise of an async function whose body is a `while (true)` loop: it
\* is pending while the loop runs and rejected once an error has left it.
\* "returned" is where a task would stand had its function returned.
TaskPromise(pc) ==
  CASE pc = "stopped" -> "rejected"
    [] pc = "returned" -> "fulfilled"
    [] OTHER -> "pending"

\* Promise.all: rejected as soon as one promise is, fulfilled when all are.
PromiseAll(ps) ==
  IF \E p \in ps : p = "rejected" THEN "rejected"
  ELSE IF \A p \in ps : p = "fulfilled" THEN "fulfilled"
  ELSE "pending"

\* The promise start() returns, which is startInternal's: rejected when
\* register() throws, and after the registration whatever
\* Promise.all([poller, ...workers]) is.
StartPromise ==
  CASE startPc \in {"constructing", "rejected", "constructed"} -> "none"
    [] startPc = "registering" -> "pending"
    [] startPc = "failed" -> "rejected"
    [] startPc = "running" ->
         PromiseAll({TaskPromise(pollerPc)} \cup {TaskPromise(wpc[w]) : w \in Workers})

\* ------------------------------------------------------------- claims
Holding(w) == job[w].id # 0 /\ wpc[w] # "stopped"

\* C1: under every interleaving of the poller and the workers, each item
\* put into the Work Queue is returned by at most one get(): no state id is
\* delivered to two workers, nor twice to the same worker.
C1_DeliveredAtMostOnce == \A i \in DOMAIN delivered : delivered[i] <= 1

\* Both workers hold a state, a further state is buffered and an earlier
\* one has been delivered and finished.
C1_Witness ==
  /\ \A w \in Workers : Holding(w)
  /\ Len(items) > 0
  /\ \E i \in DOMAIN delivered :
       delivered[i] = 1 /\ \A w \in Workers : job[w].id # i

\* C2: for a state of a registered node whose execute raises an error that
\* is no signal, the worker makes exactly one errored call, carrying the
\* raised error's message, and no executed call.
C2_HandlerErrorReportedOnce ==
  \A w \in Workers :
    Holding(w) /\ job[w].outcome = "threw" =>
      /\ job[w].node \in RegisteredNames
      /\ job[w].errored = 1
      /\ job[w].errorBody = job[w].handler.message
      /\ job[w].executed = 0

C2_Witness ==
  \E w \in Workers :
    /\ wpc[w] = "awaitErrored"
    /\ job[w].outcome = "threw"
    /\ job[w].handler.message = "boom"
    /\ job[w].errored = 1

\* C3: for a state whose handler raises Prune, the worker makes exactly one
\* prune call carrying the signal's payload, and no errored or executed call.
C3_PruneReportedOnce ==
  \A w \in Workers :
    Holding(w) /\ job[w].outcome = "prune" =>
      /\ job[w].prune = 1
      /\ job[w].pruneBody = job[w].handler.data
      /\ job[w].errored = 0
      /\ job[w].executed = 0

C3_Witness ==
  \E w \in Workers :
    /\ wpc[w] = "awaitPrune"
    /\ job[w].handler.kind = "prune"
    /\ job[w].handler.data = "reason"
    /\ job[w].pruneBody = "reason"

\* C4: for a state whose handler raises RequeueAfter, the worker makes
\* exactly one re-enqueue-after call carrying the requested delay, and no
\* errored or executed call.
C4_RequeueReportedOnce ==
  \A w \in Workers :
    Holding(w) /\ job[w].outcome = "requeue" =>
      /\ job[w].requeue = 1
      /\ job[w].requeueBody = job[w].handler.delayMs
      /\ job[w].errored = 0
      /\ job[w].executed = 0

C4_Witness ==
  \E w \in Workers :
    /\ wpc[w] = "awaitRequeue"
    /\ job[w].handler.kind = "requeue"
    /\ job[w].requeueBody = 1000

\* C5: for a dequeued state whose node name is not a registered handler
\* name, the worker sends an errored report with the message "Unknown
\* node", invokes no handler, fetches no secrets, and goes on to the next
\* dequeue.
C5_UnknownNodeReported ==
  \A w \in Workers :
    /\ job[w].id # 0
    /\ job[w].node \notin RegisteredNames
    /\ wpc[w] # "dispatch"
    => /\ wpc[w] = "awaitErrored"
       /\ job[w].errored = 1
       /\ job[w].errorBody = "Unknown node"
       /\ job[w].executeCalls = 0
       /\ job[w].secretsCalls = 0

\* C6: a worker never stops because one item failed: after a state whose
\* handler raised a plain error, or whose inputs, secrets or outputs failed
\* schema validation, the worker's loop is still running.
C6_WorkerSurvivesFailedItem ==
  \A w \in Workers :
    wpc[w] = "stopped" =>
      job[w].outcome \notin {"threw", "invalidInput", "invalidOutput"}

\* C7: when an executed or errored report is not accepted (non-success
\* response or network failure), the report call does not raise and the
\* worker does not terminate: no worker's loop is ended by notifyErrored,
\* and notifyExecuted throws nothing into the worker's catch block.
C7_ReportFailureTolerated ==
  \A w \in Workers :
    /\ job[w].stopCause # "notifyErrored"
    /\ ~(Holding(w) /\ job[w].executed = 1 /\ job[w].errored = 1)

\* C8: a failed send of a Prune or RequeueAfter report ends the loop of the
\* worker that sent it and of that worker only: the step changes nothing of
\* the poller, of the queue or of any other worker, and the worker is not
\* left among the waiting consumers, so later states go to live workers.
C8_SendFailureStopsOnlyThatWorker ==
  /\ [](\A w \in Workers :
          wpc[w] = "stopped" =>
            /\ \A k \in 1..Len(resolvers) : resolvers[k] # w
            /\ job[w].stopCause = "send" => job[w].outcome \in {"prune", "requeue"})
  /\ [][\A w \in Workers :
          wpc[w] \in {"awaitPrune", "awaitRequeue"} /\ wpc'[w] = "stopped" =>
            /\ job'[w].stopCause = "send"
            /\ \A v \in Workers \ {w} : wpc'[v] = wpc[v] /\ job'[v] = job[v]
            /\ UNCHANGED <<qvars, pvars, startPc>>]_vars

\* One worker was stopped by a failed send; the other took a later state
\* and is reporting it.
C8_Witness ==
  \E w, v \in Workers :
    /\ wpc[w] = "stopped" /\ job[w].stopCause = "send"
    /\ wpc[v] = "awaitExecuted" /\ job[v].id > job[w].id
    /\ pollerPc = "fetching"

\* How many times a state id is in the buffer.
Buffered(id) == Cardinality({k \in 1..Len(items) : items[k].id = id})

\* C9: an iteration of the poller sends the fetch request if and only if
\* the buffered size is below the batch size when it checks; after a
\* successful fetch every returned state is put exactly once, in response
\* order, before the poller sleeps.
C9_FetchIffBelowBatchThenPutAll ==
  /\ [](/\ iter = "sent" => sizeAtCheck < batchSize
        /\ iter = "skipped" => sizeAtCheck >= batchSize
        /\ pollerPc = "putting" =>
             /\ putLog = SubSeq(resp, 1, putCount)
             /\ \A k \in 1..Len(putLog) :
                  Buffered(putLog[k].id) + delivered[putLog[k].id] = 1)
  /\ [][/\ pollerPc # "fetching" /\ pollerPc' = "fetching" =>
             Len(items) < batchSize
        /\ pollerPc # "fetching" /\ iter' = "skipped" /\ iter # "skipped" =>
             Len(items) >= batchSize
        /\ pollerPc = "putting" /\ pollerPc' = "sleep" => putLog = resp]_vars

\* The second state of a response of two has just been put, behind a state
\* that was buffered before.
C9_Witness ==
  /\ pollerPc = "putting"
  /\ putCount = 2
  /\ putLog = resp
  /\ Len(items) = 3

\* C10: with one poller and at most batch-size states per fetch, the
\* buffered size never exceeds 2 x batch size, the capacity the queue is
\* constructed with, however slow the workers are.
C10_BufferWithinCapacity == Len(items) <= QueueCapacity

\* The buffer is above the batch size, at the most it can hold.
C10_Witness ==
  /\ batchSize = 2
  /\ Len(items) = 2 * batchSize - 1
  /\ \A w \in Workers : wpc[w] \in {"dispatch", "stopped"}

\* The ways enqueueCall() fails.
FetchFailures == {"reject", "notok", "malformed"}

\* C11: the poller never terminates and never passes an error on: a failed
\* fetch (network error, non-success response, malformed body) leaves it
\* asleep inside its loop with start() still pending, and from there it
\* begins another iteration.
C11_PollerSurvivesFetchFailure ==
  /\ [](iter \in FetchFailures => pollerPc = "sleep2" /\ startPc = "running")
  /\ [][pollerPc = "fetching" /\ pollerPc' # "fetching" =>
          pollerPc' \in {"sleep", "sleep2", "putting"}]_vars
  /\ (iter \in FetchFailures) ~> (iter \in {"sent", "skipped"})

\* A fetch has failed on a malformed body while states fetched before are
\* still buffered; the poller sleeps.
C11_Witness ==
  /\ iter = "malformed"
  /\ pollerPc = "sleep2"
  /\ Len(items) > 0

\* C12: between two iterations the poller always sleeps: twice the poll
\* interval after an iteration whose fetch failed, one poll interval after
\* one that fetched states, fetched none or skipped the fetch; a fetch
\* request is sent only by the first iteration or after a sleep.
C12_SleepBetweenIterations ==
  /\ [](/\ iter \in FetchFailures => SleepMs = 2 * PollInterval
        /\ iter = "skipped" => SleepMs = PollInterval
        /\ iter = "got" => pollerPc = "putting" \/ SleepMs = PollInterval
        /\ iter = "sent" <=> pollerPc = "fetching")
  /\ [][/\ pollerPc # "fetching" /\ pollerPc' = "fetching" =>
             SleepMs > 0 \/ startPc = "registering"
        /\ pollerPc \in {"fetching", "putting"} /\ pollerPc' # pollerPc =>
             pollerPc' = "putting" \/ SleepMs' > 0]_vars

\* The poller sleeps one interval after an iteration that skipped the
\* fetch because the buffer was full enough.
C12_Witness ==
  /\ iter = "skipped"
  /\ SleepMs = PollInterval
  /\ sizeAtCheck >= batchSize
  /\ nextId > 2

\* Nothing of the poller, the queue or the workers has happened.
NothingStarted ==
  /\ pollerPc = "unstarted"
  /\ iter = "none"
  /\ nextId = 1
  /\ items = <<>>
  /\ resolvers = <<>>
  /\ \A w \in Workers : wpc[w] = "unstarted" /\ job[w] = NoJob
  /\ \A i \in DOMAIN delivered : delivered[i] = 0

\* C13: start() registers first: before the registration call has
\* succeeded no fetch request is sent and no worker dequeues a state, and
\* when registration has failed start() has failed with the poller and the
\* workers not started.
C13_RegistrationFirst ==
  /\ startPc # "running" => NothingStarted
  /\ startPc = "failed" => \A w \in Workers : wpc[w] = "unstarted"
  /\ \/ iter # "none"
     \/ \E w \in Workers : wpc[w] # "unstarted"
     => startPc = "running"

\* Registration has failed; start() is over.
C13_Witness ==
  /\ startPc = "failed"
  /\ pollerPc = "unstarted"
  /\ \A w \in Workers : wpc[w] = "unstarted"

\* An outcome report (executed, errored, prune or re-enqueue-after) has
\* been sent for state i by the worker that holds it.
Reported(i) ==
  \E w \in Workers :
    /\ Holding(w)
    /\ job[w].id = i
    /\ job[w].executed + job[w].errored + job[w].prune + job[w].requeue > 0

AllStopped == \A w \in Workers : wpc[w] = "stopped"

\* C14: under fair scheduling, with a worker alive and every handler and
\* network call terminating, every state the poller puts is eventually
\* dequeued, and every dequeued state eventually gets an outcome report.
C14_EveryItemReported ==
  \A i \in 1..MaxLive :
    /\ (Buffered(i) > 0) ~> (delivered[i] > 0 \/ AllStopped)
    /\ (\E w \in Workers : wpc[w] = "dispatch" /\ job[w].id = i)
         ~> (Reported(i) \/ AllStopped)

\* C15: get() on a non-empty buffer returns at once the item buffered
\* longest and removes exactly that one, so buffered items leave in the
\* order they were put (the order of their ids); get() on an empty buffer
\* suspends the caller, last among the waiting consumers, until a put
\* hands it an item.
C15_GetTakesOldestOrSuspends ==
  /\ [](\A k \in 1..Len(items) :
          /\ delivered[items[k].id] = 0
          /\ \A l \in 1..Len(items) : k < l => items[k].id < items[l].id)
  /\ [][/\ Len(items') < Len(items) =>
             /\ items' = Tail(items)
             /\ resolvers' = resolvers
             /\ \E w \in Workers :
                  /\ wpc[w] = "dispatch" /\ wpc'[w] = "dispatch"
                  /\ job'[w] = NewJob(Head(items))
                  /\ \A v \in Workers \ {w} : job'[v] = job[v]
        /\ \A w \in Workers :
             /\ wpc[w] = "dispatch" /\ wpc'[w] = "dispatch" /\ job'[w] # job[w] =>
                  Len(items) > 0 /\ job'[w].id = Head(items).id
             /\ wpc[w] = "dispatch" /\ wpc'[w] = "waiting" =>
                  /\ items = <<>> /\ items' = <<>>
                  /\ resolvers' = Append(resolvers, w)
                  /\ job'[w] = NoJob
             /\ wpc[w] = "waiting" /\ wpc'[w] # "waiting" =>
                  /\ wpc'[w] = "dispatch"
                  /\ pollerPc \in {"fetching", "putting"}
                  /\ putCount' = putCount + 1
                  /\ job'[w] = NewJob(resp'[putCount'])]_vars

\* Since the poller's check found two states buffered a get() has taken
\* the older one; the younger one is still buffered.
C15_Witness ==
  /\ iter = "skipped"
  /\ sizeAtCheck = 2
  /\ Len(items) = 1
  /\ \E w \in Workers : wpc[w] = "dispatch" /\ job[w].id + 1 = items[1].id

\* C16: put(item) completes whatever the buffered size and the capacity:
\* it is never suspended or refused; with a consumer waiting it hands the
\* item to the first waiting consumer only and leaves the buffer as it is,
\* otherwise it appends the item to the buffer and changes nothing else.
C16_PutNeverBlocks ==
  /\ [](nextId <= orch.supply => ENABLED QueuePut)
  /\ [][nextId' = nextId + 1 =>
          IF Len(resolvers) > 0
          THEN /\ items' = items
               /\ resolvers' = Tail(resolvers)
               /\ wpc'[Head(resolvers)] = "dispatch"
               /\ job'[Head(resolvers)] = NewJob(StateItem(nextId, "Echo"))
               /\ \A v \in Workers \ {Head(resolvers)} :
                    wpc'[v] = wpc[v] /\ job'[v] = job[v]
          ELSE /\ items' = Append(items, StateItem(nextId, "Echo"))
               /\ UNCHANGED <<resolvers, wpc, job, delivered>>]_vars

\* The buffer holds more items than the capacity the queue was given.
C16_Witness ==
  /\ Len(items) > QueueCapacity
  /\ items[Len(items)].id = nextId - 1

RECURSIVE TakenUpTo(_)
\* How many times a get() has returned one of the states 1..n.
TakenUpTo(n) == IF n = 0 THEN 0 ELSE delivered[n] + TakenUpTo(n - 1)

\* C17: size() is always the number of items put and not yet taken by a
\* consumer; an item handed directly to a waiting consumer is put and taken
\* in one step and is counted neither before nor after.
C17_SizeIsPutMinusTaken ==
  /\ [](QueueSize = (nextId - 1) - TakenUpTo(orch.supply))
  /\ [][Len(resolvers') < Len(resolvers) =>
          /\ QueueSize' = QueueSize
          /\ nextId' = nextId + 1
          /\ TakenUpTo(orch.supply)' = TakenUpTo(orch.supply) + 1]_vars

\* The state put last went straight to a waiting consumer; the other
\* consumer still waits and nothing is buffered.
C17_Witness ==
  /\ nextId > 3
  /\ QueueSize = 0
  /\ Len(resolvers) = 1
  /\ \E w \in Workers : wpc[w] = "dispatch" /\ job[w].id = nextId - 1

\* The poller has put state i: it is no state of the response being put, or
\* one of those already put.
HasBeenPut(i) ==
  /\ i < nextId
  /\ \/ resp = <<>>
     \/ i < resp[1].id
     \/ \E k \in 1..putCount : resp[k].id = i

\* The workers whose current state is i.
Owners(i) == {w \in Workers : job[w].id = i}

\* The positions of a worker whose outcome-report call is pending.
AwaitingReport == {"awaitExecuted", "awaitErrored", "awaitPrune", "awaitRequeue"}

ReportCalls(j) == j.executed + j.errored + j.prune + j.requeue

\* C18: every state the poller has put is in exactly one place: in the
\* buffer (once, not yet returned by a get()), with exactly one worker, or
\* finished (returned once, with no worker and not buffered); a state not
\* yet put is nowhere.  A worker moves from one state to the next only in
\* the step in which its outcome-report call for the first has completed.
C18_OnePlacePerItem ==
  /\ [](\A i \in 1..orch.supply :
          IF HasBeenPut(i)
          THEN /\ Buffered(i) + Cardinality(Owners(i)) <= 1
               /\ delivered[i] = 0 <=> Buffered(i) = 1
               /\ delivered[i] <= 1
          ELSE Buffered(i) = 0 /\ Owners(i) = {} /\ delivered[i] = 0)
  /\ [][\A w \in Workers :
          job[w].id # 0 /\ job'[w].id # job[w].id =>
            /\ wpc[w] \in AwaitingReport
            /\ ReportCalls(job[w]) >= 1
            /\ \A k \in 1..Len(items') : items'[k].id # job[w].id
            /\ \A v \in Workers : job'[v].id # job[w].id]_vars

\* State 1 is finished and held nowhere, state 2 is with a worker whose
\* report is pending, state 3 has just been dequeued by the other worker.
C18_Witness ==
  /\ delivered[1] = 1 /\ Owners(1) = {} /\ Buffered(1) = 0
  /\ \E w, v \in Workers :
       /\ job[w].id = 2 /\ wpc[w] \in AwaitingReport
       /\ job[v].id = 3 /\ wpc[v] = "dispatch"

\* C19: there is no retry inside the process: a state that a get() has
\* returned is never in the buffer again and is returned by no second
\* get(), and the handler is invoked at most once for the state a worker
\* holds, whatever the outcome.
C19_NoInProcessRetry ==
  /\ \A i \in DOMAIN delivered :
       /\ delivered[i] >= 1 => Buffered(i) = 0
       /\ delivered[i] <= 1
  /\ \A w \in Workers :
       /\ job[w].executeCalls <= 1
       /\ job[w].outcome \in {"unknown", "notANode", "secretsRejected", "invalidInput"}
            => job[w].executeCalls = 0

\* An executed report failed and was followed by an errored report for the
\* same state, after one invocation of the handler; an earlier state is
\* finished.
C19_Witness ==
  /\ \E w \in Workers :
       /\ wpc[w] = "awaitErrored"
       /\ job[w].executed = 1
       /\ job[w].errored = 1
       /\ job[w].executeCalls = 1
       /\ job[w].id > 1
  /\ delivered[1] = 1 /\ Owners(1) = {} /\ Buffered(1) = 0

\* A worker has sent the executed report for a result of its handler that
\* is an object or an array of objects.
SentOutputs(w) ==
  /\ Holding(w)
  /\ job[w].outcome = "returned"
  /\ job[w].handler.result.shape \in {"object", "array"}

\* C20 as stated: for a handler result that passes output validation the
\* executed report's payload is the array of the handler's own outputs, one
\* for a plain object, the same n objects in the same order for an array.
C20_PayloadIsHandlerOutputs ==
  \A w \in Workers :
    SentOutputs(w) =>
      /\ job[w].executed = 1
      /\ job[w].outputsBody = job[w].handler.result.objs

\* C20, amended: for a handler result that passes output validation the
\* executed report's payload has one entry for a plain object and n entries
\* for an array of n objects (n = 0 included), in the handler's order, and
\* each entry is what the Outputs schema's parse returns for the handler's
\* object: the object without its keys the schema does not declare.
C20_PayloadIsParsedOutputs ==
  \A w \in Workers :
    SentOutputs(w) =>
      /\ job[w].executed = 1
      /\ Len(job[w].outputsBody) = Len(job[w].handler.result.objs)
      /\ job[w].handler.result.shape = "object" => Len(job[w].outputsBody) = 1
      /\ \A k \in 1..Len(job[w].outputsBody) :
           job[w].outputsBody[k] = OutputsParse(job[w].handler.result.objs[k])

\* The handler returned an array of three objects, the second with an
\* undeclared key; the executed report carries three entries.
C20_Witness ==
  \E w \in Workers :
    /\ wpc[w] = "awaitExecuted"
    /\ job[w].handler.result = [shape |-> "array", objs |-> <<"b", "a+", "a">>]
    /\ job[w].outputsBody = <<"b", "a", "a">>

\* C21: for a handler that returns nothing, an explicit null or an absent
\* (undefined) result alike, the worker sends an executed report with the
\* payload [{}] and no errored report.
C21_NothingReportedAsEmpty ==
  \A w \in Workers :
    /\ Holding(w)
    /\ job[w].handler.kind = "return"
    /\ job[w].handler.result.shape \in {"null", "undefined"}
    => /\ job[w].executed = 1
       /\ job[w].outputsBody = <<EmptyObj>>
       /\ job[w].errored = 0

C23_SchemaViolationReportedErrored ==
  \A w \in Workers :
    Holding(w) =>
      /\ job[w].outcome = "invalidInput" =>
           /\ job[w].executeCalls = 0
           /\ job[w].errored = 1
           /\ job[w].errorBody = ZodErrorMessage
           /\ job[w].executed = 0
      /\ /\ job[w].handler.kind = "return"
         /\ \E k \in 1..Len(job[w].handler.result.objs) :
              ~OutputsParseOk(job[w].handler.result.objs[k])
         => /\ job[w].outcome = "invalidOutput"
            /\ job[w].executed = 0
            /\ job[w].errored = 1
            /\ job[w].errorBody = ZodErrorMessage

\* One worker reports a state whose inputs or secrets failed their schema,
\* the other a state whose handler returned an array with a bad object.
C23_Witness ==
  \E w, v \in Workers :
    /\ wpc[w] = "awaitErrored" /\ job[w].outcome = "invalidInput"
    /\ wpc[v] = "awaitErrored" /\ job[v].outcome = "invalidOutput"
    /\ job[v].handler.result.objs = <<"a", "bad">>

\* C24: a failed secrets fetch is tolerated: whether the request fails, is
\* answered with a non-success response or without a 'secrets' field,
\* getSecrets returns a map and does not raise, so that the worker goes on
\* to node._execute (which parses the map, then invokes the handler).
C24_GetSecretsNeverRaises ==
  \A w \in Workers :
    Holding(w) /\ job[w].secretsCalls = 1 /\ wpc[w] # "awaitSecrets" =>
      /\ job[w].outcome # "secretsRejected"
      /\ job[w].executeCalls = 1 \/ job[w].outcome = "invalidInput"

\* C25: constructing the Runtime with a batch size below 1 or a worker
\* count below 1 always fails, and fails before any network call: the
\* constructor throws an Error, there is no Runtime, and no registration,
\* fetch or report request is sent.
C25_MinimumsRejectedBeforeNetwork ==
  built.args.batchSize < 1 \/ built.args.workers < 1 =>
    /\ startPc \in {"constructing", "rejected"}
    /\ NothingStarted
    /\ startPc = "rejected" =>
         /\ built.error.type = "Error"
         /\ built.error.message \in {"Batch size should be at least 1",
                                     "Workers should be at least 1"}

\* A constructor call with two workers and batch size 0 has thrown.
C25_Witness ==
  /\ startPc = "rejected"
  /\ built.args.batchSize = 0
  /\ built.args.workers = NumWorkers
  /\ built.error.message = "Batch size should be at least 1"

\* The names of the handler classes given, and how often a name occurs.
GivenNodes == ClassesOf(built.args.nodes)

GivenNames == [i \in 1..Len(GivenNodes) |-> GivenNodes[i].name]

Occurrences(names, n) == Cardinality({i \in 1..Len(names) : names[i] = n})

SharedNames == {GivenNames[i] : i \in {i \in 1..Len(GivenNames) : Occurrences(GivenNames, GivenNames[i]) > 1}}

ValidNodeClass(node) ==
  /\ node.subtype
  /\ \A l \in 1..Len(SchemaLabels) :
       /\ node[SchemaLabels[l]].value = "ZodObject"
       /\ \A k \in 1..Len(node[SchemaLabels[l]].keys) :
            node[SchemaLabels[l]].keys[k].type = "ZodString"

\* The violations of a handler class that the error should report.
ViolationsOf(node) ==
  {[kind |-> "notBaseNode", node |-> node.name, label |-> "", key |-> ""] :
     x \in {y \in {node} : ~y.subtype}}
    \cup {[kind |-> "mustBeZodObject", node |-> node.name, label |-> SchemaLabels[l],
           key |-> ""] :
            l \in {m \in 1..Len(SchemaLabels) : node[SchemaLabels[m]].value # "ZodObject"}}
    \cup UNION {{[kind |-> "mustBeString", node |-> node.name, label |-> SchemaLabels[l],
                  key |-> node[SchemaLabels[l]].keys[k].key] :
                   k \in {m \in 1..Len(node[SchemaLabels[l]].keys) :
                            node[SchemaLabels[l]].keys[m].type # "ZodString"}} :
                l \in 1..Len(SchemaLabels)}

\* C27: with options that pass validateRuntime(), construction succeeds if
\* and only if every handler class is valid and all names are distinct;
\* otherwise the constructor raises the one node validation error, which
\* reports every violation of every handler and the shared names.
C27_ValidationAggregated ==
  /\ startPc # "constructing"
  /\ built.args.batchSize >= 1 /\ built.args.workers >= 1
  /\ built.args.stateManagerUri # "" /\ built.args.key # ""
  => /\ startPc # "rejected" <=>
          /\ \A i \in 1..Len(GivenNodes) : ValidNodeClass(GivenNodes[i])
          /\ SharedNames = {}
     /\ startPc = "rejected" =>
          /\ built.error.message = "Node validation errors"
          /\ \A i \in 1..Len(GivenNodes) :
               ViolationsOf(GivenNodes[i]) \subseteq
                 {built.error.errors[k] : k \in 1..Len(built.error.errors)}
          /\ SharedNames =
               {built.error.duplicates[k] : k \in 1..Len(built.error.duplicates)}

\* C28: constructing a ReQueueAfterSignal with a delay of 0 or less fails
\* in the constructor: no signal with a non-positive delay is ever raised
\* and no re-enqueue-after request carries a non-positive delay.
C28_NoNonPositiveRequeue ==
  \A w \in Workers :
    /\ job[w].handler.kind = "requeue" => job[w].handler.delayMs > 0
    /\ job[w].requeue > 0 => job[w].requeueBody > 0
    /\ /\ Holding(w)
       /\ job[w].handler.message = "Delay must be greater than 0"
       => job[w].requeue = 0 /\ job[w].outcome = "threw"

\* A handler tried to construct the signal with a non-positive delay: the
\* constructor's Error is being reported as errored, while the other worker
\* sends a re-enqueue-after request with a positive delay.
C28_Witness ==
  \E w, v \in Workers :
    /\ wpc[w] = "awaitErrored"
    /\ job[w].errorBody = "Delay must be greater than 0"
    /\ wpc[v] = "awaitRequeue"
    /\ job[v].requeueBody = 1000

\* C29: send() of a Prune or RequeueAfter signal makes one request and no
\* more, and it raises if and only if the orchestrator's answer is not a
\* success response: a worker waiting for a send() has made exactly one
\* signal request for its state and no other report, and the step that
\* ends the wait stops the worker with the send's error exactly when the
\* answer was a non-2xx response or none, and otherwise takes the worker
\* back to the queue.
C29_SendOnceRaisesIffNotAcknowledged ==
  /\ [](\A w \in Workers :
          /\ wpc[w] \in {"awaitPrune", "awaitRequeue"} =>
               /\ job[w].prune + job[w].requeue = 1
               /\ job[w].prune = 1 <=> wpc[w] = "awaitPrune"
          /\ job[w].prune + job[w].requeue <= 1
          /\ wpc[w] = "stopped" /\ job[w].stopCause = "send" => orch.ack # "ok")
  /\ [][\A w \in Workers :
          wpc[w] \in {"awaitPrune", "awaitRequeue"}
            /\ (wpc'[w] # wpc[w] \/ job'[w] # job[w]) =>
            /\ (wpc'[w] = "stopped" /\ job'[w].stopCause = "send") <=> orch.ack # "ok"
            /\ orch.ack = "ok" => wpc'[w] \in {"waiting", "dispatch"}]_vars

\* The orchestrator refuses every signal: a worker's one re-enqueue-after
\* request is pending, and the other worker's send() of a prune has raised.
C29_Witness ==
  /\ orch.ack = "notok"
  /\ \E w, v \in Workers :
       /\ wpc[w] = "awaitRequeue" /\ job[w].requeue = 1 /\ job[w].prune = 0
       /\ wpc[v] = "stopped" /\ job[v].stopCause = "send" /\ job[v].outcome = "prune"

\* C30: after a successful registration the promise returned by start()
\* eventually resolves, so that what follows `await runtime.start()` runs.
C30_StartResolves == (startPc = "running") ~> (StartPromise = "fulfilled")

\* C31: a secret value fetched for a state is never exposed: whatever the
\* handler does, neither the message of the errored report for the state
\* nor the error line logged for it contains the fetched value.
C31_SecretsNeverExposed ==
  \A w \in Workers :
    Holding(w) /\ job[w].secretsCalls = 1 /\ job[w].executeCalls = 1 =>
      /\ ~Contains(job[w].errorBody, SecretValue)
      /\ job[w].outcome = "threw" =>
           ~Contains(ErrorLogLine(job[w].handler.message), SecretValue)

\* C32: upsertGraph returns only a graph whose status is VALID; it waits
\* and polls only while the status is PENDING and the timeout has not
\* passed at its last look; a status other than VALID and PENDING makes it
\* fail; a timeout error means the status was PENDING after the timeout;
\* and the number of polls is bounded by the timeout, so it never polls
\* for ever.
C32_UpsertReturnsOnlyValid ==
  /\ upsert.pc = "returned" <=> upsert.status = "VALID"
  /\ upsert.pc \in {"sleeping", "getting"} => upsert.status = "PENDING"
  /\ upsert.pc = "sleeping" => upsert.elapsed <= upsert.timeout
  /\ upsert.status \in GraphStatuses \ {"VALID", "PENDING"} =>
       upsert.pc = "threw" /\ upsert.error = "validation"
  /\ upsert.pc = "threw" /\ upsert.error = "timeout" =>
       upsert.status = "PENDING" /\ upsert.elapsed > upsert.timeout
  /\ upsert.pc = "threw" /\ upsert.status = "PENDING" =>
       upsert.error \in {"timeout", "get"}
  /\ upsert.polls * upsert.interval <= upsert.timeout + upsert.interval

\* After two polls that found the graph PENDING the timeout had passed and
\* upsertGraph threw the timeout error.
C32_Witness ==
  /\ upsert.pc = "threw" /\ upsert.error = "timeout"
  /\ upsert.polls >= 2

\* C33: every state of a registered node is executed on a handler object
\* created for that state's delivery alone: the object a worker executes on
\* was created in the iteration that took the state, holds the inputs and
\* secrets of that state and of no other, and is not the object of any
\* other worker.
C33_OneInstancePerItem ==
  \A w \in Workers :
    Holding(w) /\ job[w].executeCalls > 0 =>
      /\ job[w].node \in RegisteredNames
      /\ job[w].instance.item = job[w].id
      /\ job[w].instance.fieldsOf = job[w].id
      /\ \A v \in Workers \ {w} :
           Holding(v) /\ job[v].instance # NoInstance =>
             /\ job[v].instance.item # job[w].instance.item
             /\ job[v].instance.fieldsOf # job[w].instance.fieldsOf

\* Both workers are executing, each on the object of its own state.
C33_Witness ==
  /\ \A w \in Workers : wpc[w] = "executing" /\ job[w].instance.fieldsOf = job[w].id
  /\ job[1].id # job[2].id

\* C34: of several _execute calls running at once on one node object, each
\* returns the outputs computed from the inputs and secrets passed to it.
C34_EachCallOwnOutputs ==
  \A c \in 1..Len(shared.calls) :
    shared.calls[c].pc = "returned" =>
      shared.calls[c].out = Output(shared.args[c].inputs, shared.args[c].secrets)

\* The workers that have been started, and the states that a get() has
\* returned and whose worker has not completed a report call for them.
StartedWorkers == {w \in Workers : wpc[w] # "unstarted"}
InFlight == {i \in DOMAIN delivered : delivered[i] > 0 /\ Owners(i) # {}}

\* C35: after a successful registration one poller and exactly the
\* configured number of workers are running, each worker either waiting in
\* get() (once) or holding one state, so the states dequeued and not yet
\* reported are never more than the configured number of workers; the
\* poller has at most one fetch request or timer pending.
C35_OnePollerConfiguredWorkers ==
  startPc = "running" =>
    /\ pollerPc \in {"fetching", "putting", "sleep", "sleep2"}
    /\ Cardinality(StartedWorkers) = built.args.workers
    /\ \A w \in Workers :
         Cardinality({k \in 1..Len(resolvers) : resolvers[k] = w})
           = IF wpc[w] = "waiting" THEN 1 ELSE 0
    /\ \A w \in Workers : wpc[w] \notin {"waiting", "unstarted"} => job[w].id # 0
    /\ Cardinality(InFlight) <= built.args.workers

\* Every worker holds a state and the next state has to wait in the buffer.
C35_Witness ==
  /\ startPc = "running"
  /\ Cardinality(InFlight) = built.args.workers
  /\ \A w \in Workers : wpc[w] \in {"executing", "awaitSecrets"}
  /\ Len(items) > 0

\* C36: buffered items and waiting consumers are never both present: while
\* a consumer is suspended in get() the buffer is empty, and while the
\* buffer holds an item no consumer is suspended.
C36_BufferOrWaitersEmpty ==
  /\ Len(resolvers) > 0 => Len(items) = 0
  /\ Len(items) > 0 => Len(resolvers) = 0
  /\ (\E w \in Workers : wpc[w] = "waiting") => items = <<>>

\* One state went to a consumer, two more are buffered and nobody waits.
C36_Witness ==
  /\ Len(items) = 2
  /\ resolvers = <<>>
  /\ \E w \in Workers : wpc[w] = "dispatch" /\ job[w].id = 1

\* C37: the k-th get() call receives the k-th item put: every delivery
\* gives out the item put next after those already delivered; it goes to
\* the caller of get() when nobody waits and otherwise to the consumer that
\* has waited longest; and the waiting consumers keep their order, a new
\* one joining at the end.
C37_GetsServedInPutOrder ==
  /\ [][\A w \in Workers :
          job'[w].id # 0 /\ job'[w].id # job[w].id =>
            /\ job'[w].id = TakenUpTo(orch.supply) + 1
            /\ resolvers # <<>> => Head(resolvers) = w /\ resolvers' = Tail(resolvers)
            /\ resolvers = <<>> => items # <<>> /\ job'[w].id = Head(items).id]_vars
  /\ [][\/ resolvers' = resolvers
        \/ resolvers # <<>> /\ resolvers' = Tail(resolvers)
        \/ \E w \in Workers : resolvers' = Append(resolvers, w)]_vars
  /\ [](\A k \in 1..Len(items) : items[k].id = TakenUpTo(orch.supply) + k)

\* Worker 2 called get() before worker 1 and both waited: the first state
\* put went to worker 2 and the second to worker 1.
C37_Witness ==
  /\ wpc[2] = "dispatch" /\ job[2].id = 1
  /\ wpc[1] = "dispatch" /\ job[1].id = 2
  /\ items = <<>>

\* C38: for every dequeued state the worker calls at most one of the four
\* outcome endpoints and calls it at most once, also when the report call
\* fails; a state whose handler returned a valid result causes no call of
\* the errored endpoint.
C38_AtMostOneOutcomeCall ==
  \A w \in Workers :
    Holding(w) =>
      /\ ReportCalls(job[w]) <= 1
      /\ job[w].outcome = "returned" => job[w].errored = 0

\* C39: a worker's loop ends only when the send of a Prune or RequeueAfter
\* report fails: a stopped worker was stopped by a failed send of the
\* signal its handler raised, and by nothing else.
C39_StopsOnlyOnFailedSend ==
  \A w \in Workers :
    wpc[w] = "stopped" =>
      /\ job[w].stopCause = "send"
      /\ job[w].outcome \in {"prune", "requeue"}

\* C40: when the secrets fetch for a state of a node that declares a secret
\* fails (the request is rejected, the response is not a success, or its
\* body has no 'secrets'), execute() is never invoked for the state and
\* the state is reported errored exactly once, by no other endpoint.
C40_FailedSecretsFetchReportedErrored ==
  orch.vault \in {"reject", "notok", "nofield"} =>
    \A w \in Workers :
      Holding(w) /\ NeedSecrets(job[w].node) /\ job[w].secretsCalls > 0 =>
        /\ job[w].executeCalls = 0
        /\ wpc[w] \in {"awaitSecrets", "awaitErrored"}
        /\ wpc[w] = "awaitErrored" =>
             /\ job[w].errored = 1
             /\ job[w].executed + job[w].prune + job[w].requeue = 0

\* The body of the secrets response had no 'secrets': the state's errored
\* report is pending and its handler was not run.
C40_Witness ==
  /\ orch.vault = "nofield"
  /\ \E w \in Workers :
       /\ wpc[w] = "awaitErrored" /\ job[w].node = "Vault"
       /\ job[w].errored = 1 /\ job[w].executeCalls = 0

====
